---- MODULE Spec2Model ----
(***************************************************************************)
(* Model of the paginated merge-request fetch pipeline of                  *)
(* pkg/gitlab/client.go (Client.FetchMergeRequestRefs).                    *)
(*                                                                         *)
(* The GitLab platform and the processor callback (the sink) are the       *)
(* environment: every listing request, every detail request and every      *)
(* processor call is answered nondeterministically from small sets.  The   *)
(* variable "events" is a history of every outbound request and every      *)
(* processor call, in the order in which the code performs them.  Every    *)
(* request is made between rateLimitWait and checkRateLimitHeaders, which  *)
(* keep minInterval and lastRequestTime against the clock "now".           *)
(***************************************************************************)
EXTENDS Integers, Sequences, FiniteSets, TLC

\* ------------------------------------------------------------------------
\* Bounds of the environment
\* ------------------------------------------------------------------------
\* merge requests of the project
MaxIID == 2
\* listing requests of one run
MaxPages == 2
\* summary items the platform lists in one run, over all pages
MaxListed == 2
\* time one request takes, in milliseconds
RoundTrip == 40
\* rate limiting calls in a sequence of calls on one Client
MaxGovSteps == 3
\* records written to one CSV file
MaxRecords == 2
\* lines of a CSV file that was not written by this program
MaxLines == 3
\* requests of one run of FetchMergeRequestRefs
MaxRequests == 2
\* tokens of a repository text, after the scheme and host of a URL
MaxTokens == 4

\* ------------------------------------------------------------------------
\* Data of the platform
\* ------------------------------------------------------------------------
\* the project-scoped numbers of the merge requests: number 1 and numbers
\* from 404 on, as a project with some hundreds of merge requests has them
IIDs == {1} \cup {402 + k : k \in 2..MaxIID}

\* a listing summary (gitlab.BasicMergeRequest): the fields the code reads
Summaries == {[id |-> 10 + i, iid |-> i] : i \in IIDs}

OtherIID(i) == IF i = 1 THEN 404 ELSE 1

\* the pages a listing response can carry: sequences of distinct summaries
Pages ==
    {p \in UNION {[1..n -> Summaries] : n \in 0..MaxListed} :
        \A i, j \in DOMAIN p : i # j => p[i] # p[j]}

\* the detail records (gitlab.MergeRequest) the platform can answer with to
\* a detail request for summary mr: the record of that merge request with
\* an empty or a non-empty head SHA, and a record whose id and iid are not
\* the summary's
DetailRecords(mr) ==
    {[id |-> mr.id, iid |-> mr.iid, headSha |-> s] : s \in {"", "aa"}}
    \cup {[id |-> 10 + OtherIID(mr.iid), iid |-> OtherIID(mr.iid),
           headSha |-> "bb"]}

\* error values are texts, modelled as sequences of tokens; a decimal
\* number is one token per digit
ErrTransport == <<"connection refused">>
ErrNotFound == <<"GET url: ", "4", "0", "4", " Not Found">>
ErrTooManyRequests == <<"GET url: ", "4", "2", "9", " Too Many Requests">>
RequestErrs == {ErrTransport, ErrNotFound, ErrTooManyRequests}
SinkErrs == {<<"disk full">>}

\* ------------------------------------------------------------------------
\* Pure helpers
\* ------------------------------------------------------------------------
DigitChar(d) == CASE d = 0 -> "0" [] d = 1 -> "1" [] d = 2 -> "2"
                  [] d = 3 -> "3" [] d = 4 -> "4" [] d = 5 -> "5"
                  [] d = 6 -> "6" [] d = 7 -> "7" [] d = 8 -> "8"
                  [] d = 9 -> "9"

RECURSIVE Itoa(_)
Itoa(n) == IF n < 10 THEN <<DigitChar(n)>>
           ELSE Itoa(n \div 10) \o <<DigitChar(n % 10)>>

IsDigit(c) == c \in {"0", "1", "2", "3", "4", "5", "6", "7", "8", "9"}

DigitVal(c) == CASE c = "0" -> 0 [] c = "1" -> 1 [] c = "2" -> 2
                 [] c = "3" -> 3 [] c = "4" -> 4 [] c = "5" -> 5
                 [] c = "6" -> 6 [] c = "7" -> 7 [] c = "8" -> 8
                 [] c = "9" -> 9

RECURSIVE DigitsVal(_)
DigitsVal(s) == IF s = <<>> THEN 0
                ELSE 10 * DigitsVal(SubSeq(s, 1, Len(s) - 1))
                     + DigitVal(s[Len(s)])

\* strconv.Atoi on a text given as a sequence of characters: an optional
\* sign followed by one or more decimal digits, anything else is an error
Atoi(s) ==
    LET signed == s # <<>> /\ s[1] \in {"+", "-"}
        body == IF signed THEN Tail(s) ELSE s
        ok == body # <<>> /\ \A i \in DOMAIN body : IsDigit(body[i])
    IN  [ok |-> ok,
         val |-> IF ~ok THEN 0
                 ELSE IF signed /\ s[1] = "-" THEN 0 - DigitsVal(body)
                 ELSE DigitsVal(body)]

\* strings.Contains on texts
Contains(s, t) ==
    \E i \in 0..(Len(s) - Len(t)) : SubSeq(s, i + 1, i + Len(t)) = t

NilError == [isErr |-> FALSE, msg |-> <<>>]
MkError(m) == [isErr |-> TRUE, msg |-> m]

ListErrorText(cause) == <<"failed to fetch merge requests: ">> \o cause

\* variant: the detail error does not say which item failed
DetailErrorTextNoItem(iid, cause) ==
    <<"failed to fetch merge request: ">> \o cause

DetailErrorText(iid, cause) ==
    <<"failed to fetch merge request ">> \o Itoa(iid) \o <<": ">> \o cause

ProcessErrorText(iid, cause) ==
    <<"failed to process merge request ">> \o Itoa(iid) \o <<": ">> \o cause

\* the project path FetchMergeRequestRefsFromRepo got from ParseRepoPath
\* and passes on to FetchMergeRequestRefs
ProjectPath == <<"group/project">>

\* wrapFetchError
WrapFetchError(err, projectPath) ==
    LET errMsg == err.msg
    IN  IF Contains(errMsg, <<"4", "0", "4">>)
        THEN MkError(<<"repository not found: ">> \o projectPath
                     \o <<". Please check the repository path and your access permissions">>)
        ELSE IF Contains(errMsg, <<"4", "0", "1">>)
                \/ Contains(errMsg, <<"4", "0", "3">>)
        THEN MkError(<<"authentication failed: please check your GitLab token has access to repository ">>
                     \o projectPath)
        ELSE MkError(<<"failed to fetch merge request references from ">>
                     \o projectPath \o <<": ">> \o errMsg)

\* ------------------------------------------------------------------------
\* CSV files (pkg/csv/writer.go); a file and a field are sequences of
\* characters
\* ------------------------------------------------------------------------
COMMA == ","
QUOTE == "\""
CR == "\r"
LF == "\n"
SPACE == " "

\* position of the first c in s, 0 when there is none
IndexOf(s, c) ==
    IF \E i \in DOMAIN s : s[i] = c
    THEN CHOOSE i \in DOMAIN s :
            s[i] = c /\ \A j \in 1..(i - 1) : s[j] # c
    ELSE 0

RECURSIVE Concat(_)
Concat(ss) == IF ss = <<>> THEN <<>> ELSE Head(ss) \o Concat(Tail(ss))

\* csv.Writer: a field is quoted when it holds a comma, a quote, CR or LF,
\* starts with a space, or is backslash-dot; an empty field is not
FieldNeedsQuotes(field) ==
    /\ field # <<>>
    /\ \/ field = <<"\\", ".">>
       \/ \E i \in DOMAIN field : field[i] \in {COMMA, QUOTE, CR, LF}
       \/ field[1] = SPACE

\* a quote inside a quoted field is doubled, CR and LF are written as is
RECURSIVE EscapeQuotes(_)
EscapeQuotes(field) ==
    IF field = <<>> THEN <<>>
    ELSE (IF Head(field) = QUOTE THEN <<QUOTE, QUOTE>> ELSE <<Head(field)>>)
         \o EscapeQuotes(Tail(field))

\* variant: fields are written as they are
EncodeFieldRaw(field) == field

EncodeField(field) ==
    IF FieldNeedsQuotes(field)
    THEN <<QUOTE>> \o EscapeQuotes(field) \o <<QUOTE>>
    ELSE field

\* variant: records are separated by newlines, the last one has none
EncodeRecordSeparated(record) ==
    <<LF>> \o EncodeField(record[1]) \o <<COMMA>> \o EncodeField(record[2])

\* csv.Writer.Write of the two fields of a record: one line
EncodeRecord(record) ==
    EncodeField(record[1]) \o <<COMMA>> \o EncodeField(record[2]) \o <<LF>>

\* the record written for a MergeRequestRef
RecordOf(r) == <<Itoa(r.IID), r.HeadSHA>>

\* the bytes csv.Writer produces for a list of refs
EncodeRefs(refs) ==
    Concat([i \in DOMAIN refs |-> EncodeRecord(RecordOf(refs[i]))])

\* csv.Reader.readLine: the next line with its newline, CR LF turned into
\* LF, and a CR before the end of the file dropped
NextLine(s) ==
    LET i == IndexOf(s, LF)
    IN  IF i = 0
        THEN [line |-> IF s # <<>> /\ s[Len(s)] = CR
                       THEN SubSeq(s, 1, Len(s) - 1) ELSE s,
              rest |-> <<>>]
        ELSE [line |-> IF i >= 2 /\ s[i - 1] = CR
                       THEN SubSeq(s, 1, i - 2) \o <<LF>>
                       ELSE SubSeq(s, 1, i),
              rest |-> SubSeq(s, i + 1, Len(s))]

LengthNL(line) == IF line # <<>> /\ line[Len(line)] = LF THEN 1 ELSE 0

ParseFailed == [ok |-> FALSE, fields |-> <<>>, rest |-> <<>>]

\* csv.Reader.readRecord, the loop parseField: line is what is left of the
\* current line, rest what follows it in the file, fields the fields so
\* far; ParseQuoted is inside a quoted field whose text so far is acc
RECURSIVE ParseFields(_, _, _), ParseQuoted(_, _, _, _)
ParseFields(line, rest, fields) ==
    IF line = <<>> \/ line[1] # QUOTE
    THEN LET i == IndexOf(line, COMMA)
             field == IF i > 0 THEN SubSeq(line, 1, i - 1)
                      ELSE SubSeq(line, 1, Len(line) - LengthNL(line))
         IN  IF IndexOf(field, QUOTE) > 0 THEN ParseFailed
             ELSE IF i > 0
             THEN ParseFields(SubSeq(line, i + 1, Len(line)), rest,
                              Append(fields, field))
             ELSE [ok |-> TRUE, fields |-> Append(fields, field),
                   rest |-> rest]
    ELSE ParseQuoted(Tail(line), rest, fields, <<>>)

ParseQuoted(line, rest, fields, acc) ==
    LET i == IndexOf(line, QUOTE)
        after == SubSeq(line, i + 1, Len(line))
        text == acc \o SubSeq(line, 1, i - 1)
    IN  IF i > 0
        THEN IF after # <<>> /\ after[1] = QUOTE
             THEN ParseQuoted(Tail(after), rest, fields, Append(text, QUOTE))
             ELSE IF after # <<>> /\ after[1] = COMMA
             THEN ParseFields(Tail(after), rest, Append(fields, text))
             ELSE IF LengthNL(after) = Len(after)
             THEN [ok |-> TRUE, fields |-> Append(fields, text),
                   rest |-> rest]
             ELSE ParseFailed
        ELSE IF line # <<>> /\ rest # <<>>
        THEN ParseQuoted(NextLine(rest).line, NextLine(rest).rest, fields,
                         acc \o line)
        ELSE ParseFailed

\* csv.Reader.ReadAll with the default settings: empty lines are skipped,
\* every record has as many fields as the first one
RECURSIVE ReadAll(_, _)
ReadAll(s, records) ==
    IF s = <<>> THEN [ok |-> TRUE, records |-> records]
    ELSE LET nl == NextLine(s)
             parsed == ParseFields(nl.line, nl.rest, <<>>)
         IN  IF Len(nl.line) = LengthNL(nl.line)
             THEN ReadAll(nl.rest, records)
             ELSE IF ~parsed.ok THEN [ok |-> FALSE, records |-> <<>>]
             ELSE IF records # <<>>
                     /\ Len(parsed.fields) # Len(records[1])
             THEN [ok |-> FALSE, records |-> <<>>]
             ELSE ReadAll(parsed.rest, Append(records, parsed.fields))

ReadFailed == [done |-> TRUE, isErr |-> TRUE, refs |-> <<>>]
NotRead == [done |-> FALSE, isErr |-> FALSE, refs |-> <<>>]

\* variant: a record that is not a number and a head SHA is left out
RECURSIVE ConvertRecordsSkipsBad(_, _)
ConvertRecordsSkipsBad(records, refs) ==
    IF records = <<>> THEN [done |-> TRUE, isErr |-> FALSE, refs |-> refs]
    ELSE LET record == Head(records)
         IN  IF Len(record) # 2 \/ ~Atoi(record[1]).ok
             THEN ConvertRecordsSkipsBad(Tail(records), refs)
             ELSE ConvertRecordsSkipsBad(Tail(records),
                      Append(refs, [ID |-> 0, IID |-> Atoi(record[1]).val,
                                    HeadSHA |-> record[2]]))

\* the loop of ReadRefsFromFile over the records
RECURSIVE ConvertRecords(_, _)
ConvertRecords(records, refs) ==
    IF records = <<>> THEN [done |-> TRUE, isErr |-> FALSE, refs |-> refs]
    ELSE LET record == Head(records)
         IN  IF Len(record) # 2 THEN ReadFailed
             ELSE IF ~Atoi(record[1]).ok THEN ReadFailed
             ELSE ConvertRecords(Tail(records),
                      Append(refs, [ID |-> 0, IID |-> Atoi(record[1]).val,
                                    HeadSHA |-> record[2]]))

\* ReadRefsFromFile on a file with the given bytes
ReadRefsFromFile(bytes) ==
    LET all == ReadAll(bytes, <<>>)
    IN  IF ~all.ok THEN ReadFailed ELSE ConvertRecords(all.records, <<>>)

\* ------------------------------------------------------------------------
\* Repository paths and URLs (ParseRepoPath).  A path or URL is a sequence
\* of tokens: the delimiters are tokens of their own, a word is a run of
\* characters from [a-zA-Z0-9._-]; "http" and ".git" are always tokens of
\* their own, so that a text has one sequence of tokens.  No text holds a
\* percent sign or an upper-case letter.
\* ------------------------------------------------------------------------
Delims == {":", "/", "?", "#", "@", "[", "]", " "}
IsWord(t) == t \notin Delims
\* words of digits, and words that hold an underscore
DigitWords == {"8080"}
UnderscoreWords == {"_"}
\* the characters of a URL scheme are letters, digits, plus, minus and dot
IsSchemeWord(t) == IsWord(t) /\ t \notin UnderscoreWords

HasPrefix(s, t) == Len(s) >= Len(t) /\ SubSeq(s, 1, Len(t)) = t
HasSuffix(s, t) ==
    Len(s) >= Len(t) /\ SubSeq(s, Len(s) - Len(t) + 1, Len(s)) = t
TrimPrefix(s, t) == IF HasPrefix(s, t) THEN SubSeq(s, Len(t) + 1, Len(s)) ELSE s
TrimSuffix(s, t) == IF HasSuffix(s, t) THEN SubSeq(s, 1, Len(s) - Len(t)) ELSE s

\* s up to the first c, all of s when there is none
Before(s, c) == IF IndexOf(s, c) = 0 THEN s ELSE SubSeq(s, 1, IndexOf(s, c) - 1)
\* s from the first c on, empty when there is none
From(s, c) == IF IndexOf(s, c) = 0 THEN <<>> ELSE SubSeq(s, IndexOf(s, c), Len(s))
\* position of the last c in s, 0 when there is none
LastIndexOf(s, c) ==
    IF \E i \in DOMAIN s : s[i] = c
    THEN CHOOSE i \in DOMAIN s :
            s[i] = c /\ \A j \in (i + 1)..Len(s) : s[j] # c
    ELSE 0

UrlFailed == [ok |-> FALSE, scheme |-> <<>>, host |-> <<>>, path |-> <<>>]

\* url.Parse's check of the host of an authority: the user information
\* before the last "@" is dropped, a host in brackets must close them, a
\* port must be digits, a space is an invalid character
HostOK(authority) ==
    LET host == SubSeq(authority, LastIndexOf(authority, "@") + 1,
                       Len(authority))
        colon == LastIndexOf(host, ":")
    IN  /\ \A i \in DOMAIN host : host[i] # " "
        /\ IF host # <<>> /\ host[1] = "["
           THEN IndexOf(host, "]") > 0
           ELSE /\ IndexOf(host, "]") = 0
                /\ colon > 0 =>
                      \A i \in (colon + 1)..Len(host) : host[i] \in DigitWords

HostOf(authority) ==
    SubSeq(authority, LastIndexOf(authority, "@") + 1, Len(authority))

\* url.Parse on a text that starts with "http": the fragment and the query
\* are cut off, the scheme is what precedes the first colon when that is
\* made of scheme characters, "//" starts the authority, the rest is the
\* path
UrlParse(rawURL) ==
    LET noFrag == Before(rawURL, "#")
        colon == IndexOf(noFrag, ":")
        hasScheme == /\ colon > 1
                     /\ \A j \in 1..(colon - 1) : IsSchemeWord(noFrag[j])
        scheme == IF hasScheme THEN SubSeq(noFrag, 1, colon - 1) ELSE <<>>
        afterScheme == IF hasScheme
                       THEN SubSeq(noFrag, colon + 1, Len(noFrag))
                       ELSE noFrag
        rest == Before(afterScheme, "?")
        hasAuthority == /\ HasPrefix(rest, <<"/", "/">>)
                        /\ hasScheme \/ ~HasPrefix(rest, <<"/", "/", "/">>)
        afterSlashes == SubSeq(rest, 3, Len(rest))
        authority == Before(afterSlashes, "/")
    IN  IF ~HasPrefix(rest, <<"/">>)
        THEN IF hasScheme
             THEN [ok |-> TRUE, scheme |-> scheme, host |-> <<>>,
                   path |-> <<>>]
             ELSE IF IndexOf(Before(rest, "/"), ":") > 0 THEN UrlFailed
             ELSE [ok |-> TRUE, scheme |-> <<>>, host |-> <<>>,
                   path |-> rest]
        ELSE IF hasAuthority
        THEN IF ~HostOK(authority) THEN UrlFailed
             ELSE [ok |-> TRUE, scheme |-> scheme,
                   host |-> HostOf(authority),
                   path |-> From(afterSlashes, "/")]
        ELSE [ok |-> TRUE, scheme |-> scheme, host |-> <<>>, path |-> rest]

\* variant: one segment is enough
MatchesPathFormatOneSegment(s) ==
    /\ s # <<>>
    /\ \A i \in DOMAIN s : IsWord(s[i]) \/ s[i] = "/"
    /\ s[1] # "/" /\ s[Len(s)] # "/"
    /\ \A i \in 1..(Len(s) - 1) : ~(s[i] = "/" /\ s[i + 1] = "/")

\* the regular expression ^[a-zA-Z0-9._-]+(/[a-zA-Z0-9._-]+)+$
MatchesPathFormat(s) ==
    /\ s # <<>>
    /\ \A i \in DOMAIN s : IsWord(s[i]) \/ s[i] = "/"
    /\ s[1] # "/" /\ s[Len(s)] # "/"
    /\ \A i \in 1..(Len(s) - 1) : ~(s[i] = "/" /\ s[i + 1] = "/")
    /\ \E i \in DOMAIN s : s[i] = "/"

ParseError == [ok |-> FALSE, baseURL |-> <<>>, projectPath |-> <<>>]

\* variant: a trailing ".git" stays in the project path
ParseRepoPathKeepsGit(path) ==
    IF HasPrefix(path, <<"http">>)
    THEN LET u == UrlParse(path)
         IN  IF ~u.ok THEN ParseError
             ELSE [ok |-> TRUE,
                   baseURL |-> u.scheme \o <<":", "/", "/">> \o u.host,
                   projectPath |-> TrimPrefix(u.path, <<"/">>)]
    ELSE IF ~MatchesPathFormat(path) THEN ParseError
    ELSE [ok |-> TRUE, baseURL |-> <<>>, projectPath |-> path]

\* ParseRepoPath
ParseRepoPath(path) ==
    IF HasPrefix(path, <<"http">>)
    THEN LET u == UrlParse(path)
         IN  IF ~u.ok THEN ParseError
             ELSE [ok |-> TRUE,
                   baseURL |-> u.scheme \o <<":", "/", "/">> \o u.host,
                   projectPath |->
                       TrimSuffix(TrimPrefix(u.path, <<"/">>), <<".git">>)]
    ELSE IF ~MatchesPathFormat(path) THEN ParseError
    ELSE [ok |-> TRUE, baseURL |-> <<>>, projectPath |-> path]

\* no file at the output path
NoFile == [exists |-> FALSE, bytes |-> <<>>]

\* ParseRepoPath has not been called yet
NotParsed == [done |-> FALSE, ok |-> FALSE, baseURL |-> <<>>,
              projectPath |-> <<>>]

\* strings.Split(name, "/")[3:] joined by "/": what follows the third "/"
RECURSIVE AfterSlashes(_, _)
AfterSlashes(name, n) ==
    IF n = 0 THEN name
    ELSE AfterSlashes(SubSeq(name, IndexOf(name, "/") + 1, Len(name)), n - 1)

SlashCount(name) == Cardinality({i \in DOMAIN name : name[i] = "/"})

\* strings.ReplaceAll(name, "/", "-")
ReplaceSlashes(name) ==
    [i \in DOMAIN name |-> IF name[i] = "/" THEN "-" ELSE name[i]]

\* variant: only the scheme of a URL is cut off, the host stays
GenerateFilenameKeepsHost(path) ==
    LET name == IF Contains(path, <<":", "/", "/">>) /\ SlashCount(path) >= 3
                THEN AfterSlashes(path, 2)
                ELSE path
    IN  ReplaceSlashes(TrimSuffix(name, <<".git">>)) \o <<".csv">>

\* GenerateFilename
GenerateFilename(path) ==
    LET name == IF Contains(path, <<":", "/", "/">>) /\ SlashCount(path) >= 3
                THEN AfterSlashes(path, 3)
                ELSE path
    IN  ReplaceSlashes(TrimSuffix(name, <<".git">>)) \o <<".csv">>

\* GenerateFilename has not been called yet
NoFilename == <<>>

\* the base URL go-gitlab uses when NewClient is given none
DefaultBaseURL == <<"http", "s", ":", "/", "/", "gitlab.com">>
\* gitlab.WithBaseURL: the address gets a trailing slash and the API path
ApiBase(baseURL) ==
    (IF HasSuffix(baseURL, <<"/">>) THEN baseURL ELSE baseURL \o <<"/">>)
    \o <<"api/v4/">>

\* FetchMergeRequestRefsFromRepo has not returned yet
NotReturned == [returned |-> FALSE, projectPath |-> <<>>, err |-> NilError]

NoSummary == [id |-> 0, iid |-> 0]
NoDetail == [id |-> 0, iid |-> 0, headSha |-> ""]
NoRef == [ID |-> 0, IID |-> 0, HeadSHA |-> ""]

\* variant: the project-scoped number is stored as the global id
MkRefIDFromIID(mr, detailedMR) ==
    [ID |-> mr.iid, IID |-> mr.iid, HeadSHA |-> detailedMR.headSha]

MkRef(mr, detailedMR) ==
    [ID |-> mr.id, IID |-> mr.iid, HeadSHA |-> detailedMR.headSha]

\* ------------------------------------------------------------------------
\* Rate limiting (times and durations in milliseconds)
\* ------------------------------------------------------------------------
\* the zero time.Time, the value of lastRequestTime before the first request
ZeroTime == 0
BaseInterval == 100
ModerateInterval == 1000
CriticalInterval == 5000
LowThreshold == 10
CriticalThreshold == 5
DefaultRetryWait == 60000
StatusTooManyRequests == 429

\* an http.Response as checkRateLimitHeaders reads it; a header that is
\* absent reads as the empty text
Response(status, remaining, xremaining, retryAfter) ==
    [isNil |-> FALSE, status |-> status, remaining |-> remaining,
     xremaining |-> xremaining, retryAfter |-> retryAfter]

\* no response: the request did not get an answer
NilResponse ==
    [isNil |-> TRUE, status |-> 0, remaining |-> <<>>, xremaining |-> <<>>,
     retryAfter |-> <<>>]

\* time.Sleep(d): a duration that is not positive returns at once
Slept(d) == IF d > 0 THEN d ELSE 0

\* variant: rateLimitWait never sleeps
RateLimitSleepNone(last, t, interval) == 0

\* rateLimitWait: the time slept when called at time t
RateLimitSleep(last, t, interval) ==
    IF last # ZeroTime /\ t - last < interval
    THEN interval - (t - last)
    ELSE 0

\* variant: a remaining quota above the low threshold restores the
\* baseline interval
CheckedIntervalResets(resp, interval) ==
    IF resp.isNil THEN interval
    ELSE LET rateLimitRemaining ==
                 IF resp.remaining = <<>> THEN resp.xremaining
                 ELSE resp.remaining
             remaining == Atoi(rateLimitRemaining)
         IN  IF rateLimitRemaining # <<>> /\ remaining.ok
             THEN IF remaining.val <= LowThreshold THEN ModerateInterval
                  ELSE BaseInterval
             ELSE interval

\* variant: the low threshold itself does not escalate
CheckedIntervalStrict(resp, interval) ==
    IF resp.isNil THEN interval
    ELSE LET rateLimitRemaining ==
                 IF resp.remaining = <<>> THEN resp.xremaining
                 ELSE resp.remaining
             remaining == Atoi(rateLimitRemaining)
         IN  IF rateLimitRemaining # <<>> /\ remaining.ok
             THEN IF remaining.val < LowThreshold THEN ModerateInterval
                  ELSE interval
             ELSE interval

\* variant: status 429 escalates the interval as a low quota does
CheckedIntervalOn429(resp, interval) ==
    IF resp.isNil THEN interval
    ELSE LET rateLimitRemaining ==
                 IF resp.remaining = <<>> THEN resp.xremaining
                 ELSE resp.remaining
             remaining == Atoi(rateLimitRemaining)
         IN  IF resp.status = StatusTooManyRequests THEN ModerateInterval
             ELSE IF rateLimitRemaining # <<>> /\ remaining.ok
             THEN IF remaining.val <= LowThreshold THEN ModerateInterval
                  ELSE interval
             ELSE interval

\* variant: the alternate header is used whenever it is present
CheckedIntervalPrefersAlternate(resp, interval) ==
    IF resp.isNil THEN interval
    ELSE LET rateLimitRemaining ==
                 IF resp.xremaining # <<>> THEN resp.xremaining
                 ELSE resp.remaining
             remaining == Atoi(rateLimitRemaining)
         IN  IF rateLimitRemaining # <<>> /\ remaining.ok
             THEN IF remaining.val <= LowThreshold THEN ModerateInterval
                  ELSE interval
             ELSE interval

\* variant: the error of strconv.Atoi is dropped, a header that is not an
\* integer counts as the quota 0
CheckedIntervalIgnoresAtoiError(resp, interval) ==
    IF resp.isNil THEN interval
    ELSE LET rateLimitRemaining ==
                 IF resp.remaining = <<>> THEN resp.xremaining
                 ELSE resp.remaining
             remaining == Atoi(rateLimitRemaining)
             val == IF remaining.ok THEN remaining.val ELSE 0
         IN  IF rateLimitRemaining # <<>>
             THEN IF val <= LowThreshold THEN ModerateInterval
                  ELSE interval
             ELSE interval

\* checkRateLimitHeaders: minInterval after the call
CheckedInterval(resp, interval) ==
    IF resp.isNil THEN interval
    ELSE LET rateLimitRemaining ==
                 IF resp.remaining = <<>> THEN resp.xremaining
                 ELSE resp.remaining
             remaining == Atoi(rateLimitRemaining)
         IN  IF rateLimitRemaining # <<>> /\ remaining.ok
             THEN IF remaining.val <= LowThreshold THEN ModerateInterval
                  ELSE IF remaining.val <= CriticalThreshold
                  THEN CriticalInterval
                  ELSE interval
             ELSE interval

\* variant: after the wait the server asked for, the default wait is
\* slept as well
CheckedSleepFallsThrough(resp) ==
    IF resp.isNil THEN 0
    ELSE IF resp.status = StatusTooManyRequests
    THEN LET seconds == Atoi(resp.retryAfter)
         IN  IF resp.retryAfter # <<>> /\ seconds.ok
             THEN Slept(seconds.val * 1000) + DefaultRetryWait
             ELSE DefaultRetryWait
    ELSE 0

\* variant: a Retry-After header that is not an integer ends the call
\* without a wait
CheckedSleepBadHeaderNoWait(resp) ==
    IF resp.isNil THEN 0
    ELSE IF resp.status = StatusTooManyRequests
    THEN LET seconds == Atoi(resp.retryAfter)
         IN  IF resp.retryAfter = <<>> THEN DefaultRetryWait
             ELSE IF seconds.ok THEN Slept(seconds.val * 1000)
             ELSE 0
    ELSE 0

\* variant: the call returns after an escalation, before the status is
\* looked at
CheckedSleepSkippedOnLowQuota(resp) ==
    IF resp.isNil THEN 0
    ELSE LET rateLimitRemaining ==
                 IF resp.remaining = <<>> THEN resp.xremaining
                 ELSE resp.remaining
             remaining == Atoi(rateLimitRemaining)
             seconds == Atoi(resp.retryAfter)
         IN  IF rateLimitRemaining # <<>> /\ remaining.ok
                 /\ remaining.val <= LowThreshold
             THEN 0
             ELSE IF resp.status = StatusTooManyRequests
             THEN IF resp.retryAfter # <<>> /\ seconds.ok
                  THEN Slept(seconds.val * 1000)
                  ELSE DefaultRetryWait
             ELSE 0

\* checkRateLimitHeaders: the time slept in the call
CheckedSleep(resp) ==
    IF resp.isNil THEN 0
    ELSE IF resp.status = StatusTooManyRequests
    THEN LET seconds == Atoi(resp.retryAfter)
         IN  IF resp.retryAfter # <<>> /\ seconds.ok
             THEN Slept(seconds.val * 1000)
             ELSE DefaultRetryWait
    ELSE 0

\* the responses of successful requests: the client library turns every
\* answer outside 2xx into an error, so these carry status 200, with or
\* without a low remaining quota
OKResponses ==
    {Response(200, <<>>, <<>>, <<>>), Response(200, <<"8">>, <<>>, <<>>)}

\* the answer that comes with the error of a failed request: none for a
\* transport error, otherwise the response with the status outside 2xx
FailResponse(cause) ==
    IF cause = ErrNotFound THEN Response(404, <<>>, <<>>, <<>>)
    ELSE IF cause = ErrTooManyRequests
    THEN Response(StatusTooManyRequests, <<>>, <<>>, <<"3">>)
    ELSE NilResponse

\* one step of the rate limiting protocol: a call of rateLimitWait
\* ("wait"), a request answered with resp ("request"), or a call of
\* checkRateLimitHeaders with resp ("check"), and the time slept in it
Call(op, resp, slept) == [op |-> op, resp |-> resp, slept |-> slept]

\* history records
ListEvent(page, ok, items, next, cause) ==
    [kind |-> "list", page |-> page, ok |-> ok, items |-> items,
     next |-> next, mr |-> NoSummary, det |-> NoDetail, ref |-> NoRef,
     cause |-> cause]
DetailEvent(mr, ok, det, cause) ==
    [kind |-> "detail", page |-> 0, ok |-> ok, items |-> <<>>, next |-> 0,
     mr |-> mr, det |-> det, ref |-> NoRef, cause |-> cause]
SinkEvent(mr, r, ok, cause) ==
    [kind |-> "sink", page |-> 0, ok |-> ok, items |-> <<>>, next |-> 0,
     mr |-> mr, det |-> NoDetail, ref |-> r, cause |-> cause]

\* ------------------------------------------------------------------------
\* State
\* ------------------------------------------------------------------------
VARIABLES
    pc,         \* position in FetchMergeRequestRefs
    optsPage,   \* opts.Page, 0 while unset
    pageCount,  \* pageCount
    mrs,        \* items of the listing page being walked
    nextPage,   \* resp.NextPage of that page
    idx,        \* position of the range loop in mrs
    ref,        \* the MergeRequestRef built for the pending processor call
    ret,        \* the error returned, once pc = "done"
    minInterval,      \* Client.minInterval
    lastRequestTime,  \* Client.lastRequestTime
    now,              \* the clock
    calls,      \* rate limiting calls and requests of the latest step
    govSteps,   \* number of rate limiting calls so far
    events,     \* history of requests and processor calls
    repoRet,    \* what FetchMergeRequestRefsFromRepo returned
    csvPc,      \* how the CSV file came about: "none" while there is none
    file,       \* the bytes of the CSV file
    buffer,     \* the bytes held in the csv.Writer of the StreamWriter
    written,    \* the records whose write returned nil
    writeErr,   \* the sticky error of the csv.Writer
    srcLines,   \* the lines of a file that was put in place from outside
    readBack,   \* what ReadRefsFromFile returned
    cmdPc,          \* where runFetchRef is
    repoPath,       \* the --repository flag
    gitlabBaseURL,  \* the --base-url flag, empty when not given
    clientBaseURL,  \* the base URL of the client NewClient made
    projectPath,    \* the project path FetchMergeRequestRefs is called with
    requests,       \* the requests sent so far: base URL and project
    fetchRet,       \* what FetchMergeRequestRefs returned
    cmdRet,         \* what runFetchRef returned
    oldFile,        \* the output file as it was when runFetchRef started
    parseRet,       \* what ParseRepoPath returned for repoPath
    filename        \* what GenerateFilename returned for repoPath

gov == <<minInterval, lastRequestTime, now, govSteps>>
fetch == <<pc, optsPage, pageCount, mrs, nextPage, idx, ref, ret, events>>
csv == <<csvPc, file, buffer, written, writeErr, srcLines, readBack>>
cmd == <<cmdPc, repoPath, gitlabBaseURL, clientBaseURL, projectPath,
         requests, fetchRet, cmdRet, oldFile>>
\* the state outside FetchMergeRequestRefsFromRepo
pure == <<parseRet, filename>>
outside == <<csv, cmd, pure>>
\* the state outside FetchMergeRequestRefs and the rate limiting
aux == <<repoRet, outside>>
vars == <<pc, optsPage, pageCount, mrs, nextPage, idx, ref, ret,
          minInterval, lastRequestTime, now, calls, govSteps, events, aux>>

Init ==
    /\ pc = "list"
    /\ optsPage = 0
    /\ pageCount = 0
    /\ mrs = <<>>
    /\ nextPage = 0
    /\ idx = 0
    /\ ref = NoRef
    /\ ret = NilError
    /\ minInterval = BaseInterval
    /\ lastRequestTime = ZeroTime
    /\ now = 1
    /\ calls = <<>>
    /\ govSteps = 0
    /\ events = <<>>
    /\ repoRet = NotReturned
    /\ csvPc = "none"
    /\ file = <<>>
    /\ buffer = <<>>
    /\ written = <<>>
    /\ writeErr = FALSE
    /\ srcLines = <<>>
    /\ readBack = NotRead
    /\ cmdPc = "start"
    /\ repoPath = <<>>
    /\ gitlabBaseURL = <<>>
    /\ clientBaseURL = <<>>
    /\ projectPath = <<>>
    /\ requests = <<>>
    /\ fetchRet = NilError
    /\ cmdRet = NilError
    /\ oldFile = NoFile
    /\ parseRet = NotParsed
    /\ filename = NoFilename

RECURSIVE ConcatItems(_)
ConcatItems(es) ==
    IF es = <<>> THEN <<>> ELSE Head(es).items \o ConcatItems(Tail(es))

IsList(e) == e.kind = "list"
IsDetail(e) == e.kind = "detail"
IsSink(e) == e.kind = "sink"

\* the listing responses, the summaries they carried in listing order, the
\* detail requests and the processor calls so far
ListEvents == SelectSeq(events, IsList)
ListedItems == ConcatItems(ListEvents)
DetailEvents == SelectSeq(events, IsDetail)
SinkEvents == SelectSeq(events, IsSink)

\* c.rateLimitWait() followed by a request that fails with cause: the
\* request starts after the wait and takes RoundTrip, and the function
\* returns without a call of checkRateLimitHeaders
WaitAndFail(cause) ==
    LET slept == RateLimitSleep(lastRequestTime, now, minInterval)
        start == now + slept
    IN  /\ lastRequestTime' = start
        /\ now' = start + RoundTrip
        /\ calls' = <<Call("wait", NilResponse, slept),
                      Call("request", FailResponse(cause), 0)>>
        /\ govSteps' = govSteps + 1
        /\ UNCHANGED minInterval

\* c.rateLimitWait(), a request answered with resp, and
\* c.checkRateLimitHeaders(resp)
WaitAndCheck(resp) ==
    LET slept == RateLimitSleep(lastRequestTime, now, minInterval)
        start == now + slept
    IN  /\ lastRequestTime' = start
        /\ now' = start + RoundTrip + CheckedSleep(resp)
        /\ minInterval' = CheckedInterval(resp, minInterval)
        /\ calls' = <<Call("wait", NilResponse, slept),
                      Call("request", resp, 0),
                      Call("check", resp, CheckedSleep(resp))>>
        /\ govSteps' = govSteps + 2

\* variant: the loop steps over the item after the one just handled
AfterItemSkips(i, items, next) ==
    IF i + 1 < Len(items)
    THEN /\ idx' = i + 2
         /\ pc' = "detail"
         /\ UNCHANGED <<optsPage, ret>>
    ELSE IF next = 0
    THEN /\ idx' = i
         /\ pc' = "done"
         /\ ret' = NilError
         /\ UNCHANGED optsPage
    ELSE /\ idx' = i
         /\ pc' = "list"
         /\ optsPage' = next
         /\ UNCHANGED ret

\* variant: the cursor of the response is not carried into the next listing
\* request
AfterItemKeepsCursor(i, items, next) ==
    IF i < Len(items)
    THEN /\ idx' = i + 1
         /\ pc' = "detail"
         /\ UNCHANGED <<optsPage, ret>>
    ELSE IF next = 0
    THEN /\ idx' = i
         /\ pc' = "done"
         /\ ret' = NilError
         /\ UNCHANGED optsPage
    ELSE /\ idx' = i
         /\ pc' = "list"
         /\ UNCHANGED <<optsPage, ret>>

\* the control state after the body of the range loop has ended for item i
\* of page items with cursor next: the next item, the next page, or return
AfterItem(i, items, next) ==
    IF i < Len(items)
    THEN /\ idx' = i + 1
         /\ pc' = "detail"
         /\ UNCHANGED <<optsPage, ret>>
    ELSE IF next = 0
    THEN /\ idx' = i
         /\ pc' = "done"
         /\ ret' = NilError
         /\ UNCHANGED optsPage
    ELSE /\ idx' = i
         /\ pc' = "list"
         /\ optsPage' = next
         /\ UNCHANGED ret

\* cursors the platform may report with the page answered to the n-th
\* listing request: the chain of pages is finite
NextCursors(n) == IF n < MaxPages THEN {0, n + 1} ELSE {0}

\* pages the platform may answer the next listing request with
NextPages == {p \in Pages : Len(ListedItems) + Len(p) <= MaxListed}

\* variant: the page is walked from its last item to its first
CurrentItemReversed == mrs[Len(mrs) + 1 - idx]

\* variant: every iteration handles the first item of the page
CurrentItemFirst == mrs[1]

\* the loop variable mr of "for _, mr := range mrs"
CurrentItem == mrs[idx]

\* a listing request fails
ListFail ==
    /\ pc = "list"
    /\ \E cause \in RequestErrs :
        /\ pageCount' = pageCount + 1
        /\ events' = Append(events, ListEvent(optsPage, FALSE, <<>>, 0, cause))
        /\ ret' = MkError(ListErrorText(cause))
        /\ pc' = "done"
        /\ WaitAndFail(cause)
    /\ UNCHANGED <<optsPage, mrs, nextPage, idx, ref>>
    /\ UNCHANGED aux

\* a listing request is answered with a page
ListOK ==
    /\ pc = "list"
    /\ \E items \in NextPages, next \in NextCursors(pageCount + 1),
          resp \in OKResponses :
        /\ pageCount' = pageCount + 1
        /\ WaitAndCheck(resp)
        /\ events' = Append(events, ListEvent(optsPage, TRUE, items, next, <<>>))
        /\ mrs' = items
        /\ nextPage' = next
        /\ AfterItem(0, items, next)
    /\ UNCHANGED ref
    /\ UNCHANGED aux

\* variant: a failed detail request skips the item and the run goes on
DetailFailSkipped ==
    /\ pc = "detail"
    /\ \E cause \in RequestErrs :
        /\ events' = Append(events,
                             DetailEvent(CurrentItem, FALSE, NoDetail, cause))
        /\ WaitAndFail(cause)
    /\ AfterItem(idx, mrs, nextPage)
    /\ UNCHANGED <<pageCount, mrs, nextPage, ref>>
    /\ UNCHANGED aux

\* the detail request of the current item fails
DetailFail ==
    /\ pc = "detail"
    /\ \E cause \in RequestErrs :
        /\ events' = Append(events,
                             DetailEvent(CurrentItem, FALSE, NoDetail, cause))
        /\ ret' = MkError(DetailErrorText(CurrentItem.iid, cause))
        /\ pc' = "done"
        /\ WaitAndFail(cause)
    /\ UNCHANGED <<optsPage, pageCount, mrs, nextPage, idx, ref>>
    /\ UNCHANGED aux

\* variant: the record is built whatever the head SHA is
DetailOKNoSkip ==
    /\ pc = "detail"
    /\ \E detailedMR \in DetailRecords(CurrentItem), resp \in OKResponses :
        /\ WaitAndCheck(resp)
        /\ events' = Append(events,
                             DetailEvent(CurrentItem, TRUE, detailedMR, <<>>))
        /\ ref' = MkRef(CurrentItem, detailedMR)
        /\ pc' = "sink"
    /\ UNCHANGED <<optsPage, pageCount, mrs, nextPage, idx, ret>>
    /\ UNCHANGED aux

\* variant: the record is kept for later and the loop goes on to the next
\* request
DetailOKDefers ==
    /\ pc = "detail"
    /\ \E detailedMR \in DetailRecords(CurrentItem), resp \in OKResponses :
        /\ WaitAndCheck(resp)
        /\ events' = Append(events,
                             DetailEvent(CurrentItem, TRUE, detailedMR, <<>>))
        /\ IF detailedMR.headSha # "" /\ idx = Len(mrs) /\ nextPage = 0
           THEN /\ ref' = MkRef(CurrentItem, detailedMR)
                /\ pc' = "sink"
                /\ UNCHANGED <<optsPage, idx, ret>>
           ELSE /\ AfterItem(idx, mrs, nextPage)
                /\ UNCHANGED ref
    /\ UNCHANGED <<pageCount, mrs, nextPage>>
    /\ UNCHANGED aux

\* the detail request of the current item is answered
DetailOK ==
    /\ pc = "detail"
    /\ \E detailedMR \in DetailRecords(CurrentItem), resp \in OKResponses :
        /\ WaitAndCheck(resp)
        /\ events' = Append(events,
                             DetailEvent(CurrentItem, TRUE, detailedMR, <<>>))
        /\ IF detailedMR.headSha # ""
           THEN /\ ref' = MkRef(CurrentItem, detailedMR)
                /\ pc' = "sink"
                /\ UNCHANGED <<optsPage, idx, ret>>
           ELSE /\ AfterItem(idx, mrs, nextPage)
                /\ UNCHANGED ref
    /\ UNCHANGED <<pageCount, mrs, nextPage>>
    /\ UNCHANGED aux

\* variant: the run returns nil after the first record is accepted
ProcessOKReturns ==
    /\ pc = "sink"
    /\ events' = Append(events, SinkEvent(CurrentItem, ref, TRUE, <<>>))
    /\ pc' = "done"
    /\ ret' = NilError
    /\ UNCHANGED <<optsPage, pageCount, mrs, nextPage, idx, ref, gov>>
    /\ calls' = <<>>
    /\ UNCHANGED aux

\* the processor accepts the record
ProcessOK ==
    /\ pc = "sink"
    /\ events' = Append(events, SinkEvent(CurrentItem, ref, TRUE, <<>>))
    /\ AfterItem(idx, mrs, nextPage)
    /\ UNCHANGED <<pageCount, mrs, nextPage, ref, gov>>
    /\ calls' = <<>>
    /\ UNCHANGED aux

\* variant: an error of the processor is dropped and the run goes on
ProcessFailIgnored ==
    /\ pc = "sink"
    /\ \E cause \in SinkErrs :
        events' = Append(events, SinkEvent(CurrentItem, ref, FALSE, cause))
    /\ AfterItem(idx, mrs, nextPage)
    /\ UNCHANGED <<pageCount, mrs, nextPage, ref, gov>>
    /\ calls' = <<>>
    /\ UNCHANGED aux

\* the processor returns an error
ProcessFail ==
    /\ pc = "sink"
    /\ \E cause \in SinkErrs :
        /\ events' = Append(events, SinkEvent(CurrentItem, ref, FALSE, cause))
        /\ ret' = MkError(ProcessErrorText(CurrentItem.iid, cause))
        /\ pc' = "done"
    /\ UNCHANGED <<optsPage, pageCount, mrs, nextPage, idx, ref, gov>>
    /\ calls' = <<>>
    /\ UNCHANGED aux

\* FetchMergeRequestRefsFromRepo returns what FetchMergeRequestRefs returned,
\* an error through wrapFetchError
FromRepoReturn ==
    /\ pc = "done"
    /\ ~repoRet.returned
    /\ repoRet' = IF ret.isErr
                  THEN [returned |-> TRUE, projectPath |-> <<>>,
                        err |-> WrapFetchError(ret, ProjectPath)]
                  ELSE [returned |-> TRUE, projectPath |-> ProjectPath,
                        err |-> NilError]
    /\ calls' = <<>>
    /\ UNCHANGED <<fetch, gov, outside>>

Next ==
    \/ ListFail
    \/ ListOK
    \/ DetailFail
    \/ DetailOK
    \/ ProcessOK
    \/ ProcessFail
    \/ FromRepoReturn

Spec == Init /\ [][Next]_vars

\* FetchMergeRequestRefs keeps running until it returns
SpecLive == Spec /\ WF_vars(Next)

\* ------------------------------------------------------------------------
\* The rate limiting calls on their own: any sequence of rateLimitWait and
\* checkRateLimitHeaders calls on one Client, with any response, while
\* time passes between the calls
\* ------------------------------------------------------------------------
RemainingValues == {<<>>, <<"5">>, <<"1", "0">>, <<"1", "1">>, <<"x">>}
AltRemainingValues == {<<>>, <<"5">>}
RetryAfterValues == {<<>>, <<"3">>, <<"x">>}

GovResponses ==
    {NilResponse}
    \cup {Response(200, r, x, <<>>) :
             r \in RemainingValues, x \in AltRemainingValues}
    \cup {Response(StatusTooManyRequests, r, x, a) :
             r \in RemainingValues, x \in AltRemainingValues,
             a \in RetryAfterValues}

\* times that pass between two calls
Elapses == {50, 500, 2000}

\* variant: lastRequestTime is the time read before the sleep
GovWaitStale ==
    /\ govSteps < MaxGovSteps
    /\ LET slept == RateLimitSleep(lastRequestTime, now, minInterval)
       IN  /\ now' = now + slept
           /\ lastRequestTime' = now
           /\ calls' = <<Call("wait", NilResponse, slept)>>
    /\ govSteps' = govSteps + 1
    /\ UNCHANGED <<minInterval, fetch>>
    /\ UNCHANGED aux

\* c.rateLimitWait()
GovWait ==
    /\ govSteps < MaxGovSteps
    /\ LET slept == RateLimitSleep(lastRequestTime, now, minInterval)
       IN  /\ now' = now + slept
           /\ lastRequestTime' = now + slept
           /\ calls' = <<Call("wait", NilResponse, slept)>>
    /\ govSteps' = govSteps + 1
    /\ UNCHANGED <<minInterval, fetch>>
    /\ UNCHANGED aux

\* variant: checkRateLimitHeaders stamps lastRequestTime when it is called
GovCheckStampsTime ==
    /\ govSteps < MaxGovSteps
    /\ \E resp \in GovResponses :
        /\ minInterval' = CheckedInterval(resp, minInterval)
        /\ now' = now + CheckedSleep(resp)
        /\ calls' = <<Call("check", resp, CheckedSleep(resp))>>
    /\ lastRequestTime' = now
    /\ govSteps' = govSteps + 1
    /\ UNCHANGED fetch
    /\ UNCHANGED aux

\* c.checkRateLimitHeaders(resp)
GovCheck ==
    /\ govSteps < MaxGovSteps
    /\ \E resp \in GovResponses :
        /\ minInterval' = CheckedInterval(resp, minInterval)
        /\ now' = now + CheckedSleep(resp)
        /\ calls' = <<Call("check", resp, CheckedSleep(resp))>>
    /\ govSteps' = govSteps + 1
    /\ UNCHANGED <<lastRequestTime, fetch>>
    /\ UNCHANGED aux

\* time passes after a call
GovTick ==
    /\ govSteps < MaxGovSteps
    /\ calls # <<>>
    /\ \E d \in Elapses : now' = now + d
    /\ calls' = <<>>
    /\ UNCHANGED <<minInterval, lastRequestTime, govSteps, fetch>>
    /\ UNCHANGED aux

NextGov ==
    \/ GovWait
    \/ GovCheck
    \/ GovTick

SpecGov == Init /\ [][NextGov]_vars

\* ------------------------------------------------------------------------
\* Writing and reading CSV files
\* ------------------------------------------------------------------------
\* head SHAs as sequences of characters: a plain one, an empty one, and
\* ones with the characters csv.Writer treats specially
CsvSHAs == {<<"a", "b">>, <<>>, <<"a", COMMA, "b">>, <<"a", QUOTE>>,
            <<"a", CR, LF, "b">>, <<SPACE, "a">>, <<"\\", ".">>}
CsvIIDs == {1, 16}
CsvRefs == {[ID |-> 10 + i, IID |-> i, HeadSHA |-> h] :
               i \in CsvIIDs, h \in CsvSHAs}
RefLists == UNION {[1..n -> CsvRefs] : n \in 0..MaxRecords}

\* lines of a file that was not written by this program: two good ones,
\* one with three fields, one with one field, one whose number is not an
\* integer, and an empty one
GoodLineTexts == {<<"1", COMMA, "a", "b">>, <<"1", "6", COMMA, "c", "d">>}
BadLineTexts == {<<"1", COMMA, "a", "b", COMMA, "x">>, <<"7">>,
                 <<"x", COMMA, "a", "b">>}
LineTexts == GoodLineTexts \cup BadLineTexts \cup {<<>>}
LineLists == UNION {[1..n -> LineTexts] : n \in 1..MaxLines}

\* the lines joined by newlines
RECURSIVE JoinLines(_)
JoinLines(lines) ==
    IF Len(lines) = 1 THEN lines[1]
    ELSE lines[1] \o <<LF>> \o JoinLines(Tail(lines))

\* everything but the CSV state
notCsv == <<fetch, gov, calls, repoRet, cmd, pure>>

\* NewStreamWriter: os.Create makes the file, or empties an existing one
NewStreamWriter ==
    /\ csvPc = "none"
    /\ csvPc' = "stream"
    /\ file' = <<>>
    /\ UNCHANGED <<buffer, written, writeErr, srcLines, readBack>>
    /\ UNCHANGED notCsv

\* StreamWriter.WriteRef returns nil: Write puts the record in the
\* buffer, Flush writes the buffer to the file
WriteRefOK ==
    /\ csvPc = "stream"
    /\ ~writeErr
    /\ Len(written) < MaxRecords
    /\ \E r \in CsvRefs :
        /\ file' = file \o buffer \o EncodeRecord(RecordOf(r))
        /\ buffer' = <<>>
        /\ written' = Append(written, r)
    /\ UNCHANGED <<csvPc, writeErr, srcLines, readBack>>
    /\ UNCHANGED notCsv

\* StreamWriter.WriteRef returns an error: the write of the file fails
\* after n bytes of the buffer, the rest stays in the buffer and the
\* error sticks to the csv.Writer
WriteRefFail ==
    /\ csvPc = "stream"
    /\ ~writeErr
    /\ Len(written) < MaxRecords
    /\ \E r \in CsvRefs :
        LET pending == buffer \o EncodeRecord(RecordOf(r))
        IN  \E n \in 0..(Len(pending) - 1) :
                /\ file' = file \o SubSeq(pending, 1, n)
                /\ buffer' = SubSeq(pending, n + 1, Len(pending))
    /\ writeErr' = TRUE
    /\ UNCHANGED <<csvPc, written, srcLines, readBack>>
    /\ UNCHANGED notCsv

\* StreamWriter.Close: Flush, which writes nothing once an error sticks,
\* then the file is closed
Close ==
    /\ csvPc = "stream"
    /\ csvPc' = "streamed"
    /\ file' = IF writeErr THEN file ELSE file \o buffer
    /\ buffer' = IF writeErr THEN buffer ELSE <<>>
    /\ UNCHANGED <<written, writeErr, srcLines, readBack>>
    /\ UNCHANGED notCsv

\* WriteRefsToFile on a file system that takes every write: every record
\* is written, the deferred Flush empties the buffer, the deferred Close
\* closes the file, nil is returned
WriteRefsToFile ==
    /\ csvPc = "none"
    /\ \E refs \in RefLists :
        /\ file' = EncodeRefs(refs)
        /\ written' = refs
    /\ csvPc' = "batch"
    /\ UNCHANGED <<buffer, writeErr, srcLines, readBack>>
    /\ UNCHANGED notCsv

\* a file from elsewhere is put in place, its last line with or without
\* a newline
PutFile ==
    /\ csvPc = "none"
    /\ \E lines \in LineLists, terminated \in BOOLEAN :
        /\ srcLines' = lines
        /\ file' = JoinLines(lines) \o (IF terminated THEN <<LF>> ELSE <<>>)
    /\ csvPc' = "foreign"
    /\ UNCHANGED <<buffer, written, writeErr, readBack>>
    /\ UNCHANGED notCsv

\* ReadRefsFromFile on the closed file
ReadFile ==
    /\ csvPc \in {"streamed", "batch", "foreign"}
    /\ ~readBack.done
    /\ readBack' = ReadRefsFromFile(file)
    /\ UNCHANGED <<csvPc, file, buffer, written, writeErr, srcLines>>
    /\ UNCHANGED notCsv

NextCsv ==
    \/ NewStreamWriter
    \/ WriteRefOK
    \/ WriteRefFail
    \/ Close
    \/ WriteRefsToFile
    \/ PutFile
    \/ ReadFile

SpecCsv == Init /\ [][NextCsv]_vars

\* ------------------------------------------------------------------------
\* The fetch command (runFetchRef)
\* ------------------------------------------------------------------------

GitlabCom == <<"http", "s", ":", "/", "/", "gitlab.com">>
ExampleCom == <<"http", "s", ":", "/", "/", "gitlab.example.com">>
GitCorp == <<"http", ":", "/", "/", "git.corp", ":", "8080">>
GroupProject == <<"group", "/", "project">>

\* values of the --repository flag: paths, URLs, texts that are neither
RepoPaths ==
    {GroupProject,
     <<"group", "/", "sub", "/", "project">>,
     <<"project">>,
     <<>>,
     <<"group", "/", " ", "project">>,
     GitlabCom \o <<"/">> \o GroupProject,
     ExampleCom \o <<"/">> \o GroupProject \o <<".git">>,
     GitCorp \o <<"/">> \o GroupProject,
     ExampleCom \o <<"/">>,
     <<"http", ":", "/", "/", "[">>,
     <<"http", "group", "/", "project">>}

\* values of the --base-url flag; the empty one is the flag not given
BaseURLs == {<<>>, ExampleCom, GitCorp}

\* how FetchMergeRequestRefs ends in a run of the command
FetchRets == {NilError, MkError(ErrTransport)}

\* everything but the state of the command and the CSV file
notCmd == <<fetch, gov, calls, repoRet, pure>>

\* an earlier run has left a file with one record at the output path
EarlierRun ==
    /\ cmdPc = "start"
    /\ csvPc = "none"
    /\ \E r \in CsvRefs :
        /\ r.HeadSHA = <<"a", "b">>
        /\ file' = EncodeRefs(<<r>>)
        /\ written' = <<r>>
    /\ csvPc' = "batch"
    /\ UNCHANGED <<buffer, writeErr, srcLines, readBack>>
    /\ UNCHANGED <<cmd, notCmd>>

\* runFetchRef up to NewClient: the client gets the base URL of the flag
\* when one is given and the default one otherwise
CmdNewClient ==
    /\ cmdPc = "start"
    /\ \E r \in RepoPaths, b \in BaseURLs :
        /\ repoPath' = r
        /\ gitlabBaseURL' = b
        /\ clientBaseURL' = IF b # <<>> THEN ApiBase(b)
                            ELSE ApiBase(DefaultBaseURL)
    /\ oldFile' = [exists |-> csvPc # "none", bytes |-> file]
    /\ cmdPc' = "client"
    /\ UNCHANGED <<projectPath, requests, fetchRet, cmdRet>>
    /\ UNCHANGED <<notCmd, csv>>

\* runFetchRef: NewStreamWriter makes or empties the output file
CmdNewStreamWriter ==
    /\ cmdPc = "client"
    /\ cmdPc' = "writer"
    /\ csvPc' = "stream"
    /\ file' = <<>>
    /\ written' = <<>>
    /\ UNCHANGED <<buffer, writeErr, srcLines, readBack>>
    /\ UNCHANGED <<repoPath, gitlabBaseURL, clientBaseURL, projectPath,
                   requests, fetchRet, cmdRet, oldFile>>
    /\ UNCHANGED notCmd

\* the deferred csvWriter.Close of runFetchRef
DeferredClose ==
    /\ csvPc' = "streamed"
    /\ file' = IF writeErr THEN file ELSE file \o buffer
    /\ buffer' = IF writeErr THEN buffer ELSE <<>>
    /\ UNCHANGED <<written, writeErr, srcLines, readBack>>

\* variant: the client is pointed at the base URL of the repository URL
CmdParseUsesParsedBase ==
    /\ cmdPc = "writer"
    /\ LET parsed == ParseRepoPath(repoPath)
       IN  IF ~parsed.ok
           THEN /\ cmdRet' = MkError(<<"failed to parse repository path: ">>)
                /\ cmdPc' = "done"
                /\ DeferredClose
                /\ UNCHANGED <<projectPath, clientBaseURL>>
           ELSE /\ projectPath' = parsed.projectPath
                /\ clientBaseURL' = IF parsed.baseURL # <<>>
                                    THEN ApiBase(parsed.baseURL)
                                    ELSE clientBaseURL
                /\ cmdPc' = "fetching"
                /\ UNCHANGED <<cmdRet, csv>>
    /\ UNCHANGED <<repoPath, gitlabBaseURL, requests, fetchRet, oldFile>>
    /\ UNCHANGED notCmd

\* FetchMergeRequestRefsFromRepo up to the call of FetchMergeRequestRefs:
\* a path that does not parse ends the command, the base URL that was
\* parsed is dropped
CmdParse ==
    /\ cmdPc = "writer"
    /\ LET parsed == ParseRepoPath(repoPath)
       IN  IF ~parsed.ok
           THEN /\ cmdRet' = MkError(<<"failed to parse repository path: ">>)
                /\ cmdPc' = "done"
                /\ DeferredClose
                /\ UNCHANGED projectPath
           ELSE /\ projectPath' = parsed.projectPath
                /\ cmdPc' = "fetching"
                /\ UNCHANGED <<cmdRet, csv>>
    /\ UNCHANGED <<repoPath, gitlabBaseURL, clientBaseURL, requests,
                   fetchRet, oldFile>>
    /\ UNCHANGED notCmd

\* a request of FetchMergeRequestRefs: it goes to the base URL of the
\* client and names the project
CmdRequest ==
    /\ cmdPc = "fetching"
    /\ Len(requests) < MaxRequests
    /\ requests' = Append(requests, [baseURL |-> clientBaseURL,
                                     project |-> projectPath])
    /\ UNCHANGED <<cmdPc, repoPath, gitlabBaseURL, clientBaseURL,
                   projectPath, fetchRet, cmdRet, oldFile>>
    /\ UNCHANGED <<notCmd, csv>>

\* FetchMergeRequestRefs returns after at least one request, and with it
\* FetchMergeRequestRefsFromRepo and runFetchRef
CmdReturn ==
    /\ cmdPc = "fetching"
    /\ requests # <<>>
    /\ \E r \in FetchRets :
        /\ fetchRet' = r
        /\ cmdRet' = IF r.isErr THEN WrapFetchError(r, projectPath)
                     ELSE NilError
    /\ cmdPc' = "done"
    /\ DeferredClose
    /\ UNCHANGED <<repoPath, gitlabBaseURL, clientBaseURL, projectPath,
                   requests, oldFile>>
    /\ UNCHANGED notCmd

NextCmd ==
    \/ EarlierRun
    \/ CmdNewClient
    \/ CmdNewStreamWriter
    \/ CmdParse
    \/ CmdRequest
    \/ CmdReturn

SpecCmd == Init /\ [][NextCmd]_vars

\* ------------------------------------------------------------------------
\* ParseRepoPath and GenerateFilename on repository texts
\* ------------------------------------------------------------------------
\* a word, the delimiters "/" and ":", the tokens "http" and ".git", and
\* a space for the characters outside [a-zA-Z0-9._-]
PathTokens == {"g", "/", ".git", "http", ":", " "}
ShortTexts == UNION {[1..n -> PathTokens] : n \in 0..MaxTokens}
\* hosts: a name, a name with a port, an unclosed bracket
UrlHosts == {<<"h.com">>, <<"h.com", ":", "8080">>, <<"[">>}
UrlScheme == <<"http", "s">>
\* what follows the host of a URL: nothing, or "/" and a short text
UrlTails == {<<>>} \cup {<<"/">> \o t : t \in ShortTexts}
\* repository texts: the short texts, and the URLs
RepoTexts ==
    ShortTexts \cup
    {UrlScheme \o <<":", "/", "/">> \o h \o t :
        h \in UrlHosts, t \in UrlTails}

\* ParseRepoPath is called with a repository text
CallParseRepoPath ==
    /\ ~parseRet.done
    /\ \E t \in RepoTexts :
        /\ repoPath' = t
        /\ parseRet' = [done |-> TRUE, ok |-> ParseRepoPath(t).ok,
                      baseURL |-> ParseRepoPath(t).baseURL,
                      projectPath |-> ParseRepoPath(t).projectPath]
    /\ UNCHANGED <<filename, cmdPc, gitlabBaseURL, clientBaseURL,
                   projectPath, requests, fetchRet, cmdRet, oldFile>>
    /\ UNCHANGED <<fetch, gov, calls, repoRet, csv>>

\* GenerateFilename is called with the same text
CallGenerateFilename ==
    /\ parseRet.done
    /\ filename = NoFilename
    /\ filename' = GenerateFilename(repoPath)
    /\ UNCHANGED <<parseRet, cmd>>
    /\ UNCHANGED <<fetch, gov, calls, repoRet, csv>>

NextParse ==
    \/ CallParseRepoPath
    \/ CallGenerateFilename

SpecParse == Init /\ [][NextParse]_vars

\* ------------------------------------------------------------------------
\* Views of the history
\* ------------------------------------------------------------------------
ReturnedNil == pc = "done" /\ ~ret.isErr
ReturnedError == pc = "done" /\ ret.isErr

\* no merge request is listed twice
NoOverlap ==
    \A i, j \in DOMAIN ListedItems :
        i # j => ListedItems[i].iid # ListedItems[j].iid

CountDetail(iid) ==
    Cardinality({k \in DOMAIN DetailEvents : DetailEvents[k].mr.iid = iid})
CountListed(iid) ==
    Cardinality({k \in DOMAIN ListedItems : ListedItems[k].iid = iid})

HasEmptySHA(e) == IsDetail(e) /\ e.ok /\ e.det.headSha = ""
HasSHA(e) == IsDetail(e) /\ e.ok /\ e.det.headSha # ""

\* <<iid, head SHA>> of the records passed to the processor, in call order
Offered ==
    [j \in DOMAIN SinkEvents |->
        <<SinkEvents[j].ref.IID, SinkEvents[j].ref.HeadSHA>>]

\* <<iid, head SHA>> of the first n listed items whose detail record has a
\* non-empty head SHA, in listing order
RECURSIVE Eligible(_)
Eligible(n) ==
    IF n = 0 THEN <<>>
    ELSE Eligible(n - 1) \o
         (IF HasSHA(DetailEvents[n])
          THEN << <<ListedItems[n].iid, DetailEvents[n].det.headSha>> >>
          ELSE <<>>)

\* ------------------------------------------------------------------------
\* C1: in a run that returned nil whose listing pages do not overlap,
\* every listed summary item has exactly one detail request, and no detail
\* request is for an item that was not listed
\* ------------------------------------------------------------------------
C1_ExactlyOneDetailPerItem ==
    (ReturnedNil /\ NoOverlap) =>
        /\ \A k \in DOMAIN ListedItems : CountDetail(ListedItems[k].iid) = 1
        /\ \A k \in DOMAIN DetailEvents : CountListed(DetailEvents[k].mr.iid) = 1
        /\ \A k \in DOMAIN DetailEvents :
              \E i \in DOMAIN ListedItems : ListedItems[i] = DetailEvents[k].mr

C1_Witness ==
    /\ ReturnedNil
    /\ NoOverlap
    /\ Len(ListEvents) = 2
    /\ Len(ListedItems) = 2
    /\ Len(DetailEvents) = 2

\* ------------------------------------------------------------------------
\* C2: when the run returns nil, the records passed to the processor are
\* exactly, and in listing order, the listed items whose detail record has
\* a non-empty head SHA; so a run that left an eligible item out did not
\* return nil
\* ------------------------------------------------------------------------
C2_SinkGetsEligibleSubsequence ==
    ReturnedNil =>
        /\ Len(DetailEvents) = Len(ListedItems)
        /\ Offered = Eligible(Len(ListedItems))

C2_Witness ==
    /\ ReturnedNil
    /\ Len(ListEvents) = 2
    /\ Len(ListedItems) = 2
    /\ Len(SinkEvents) = 1
    /\ \E k \in DOMAIN DetailEvents : HasEmptySHA(DetailEvents[k])

\* ------------------------------------------------------------------------
\* C3: after a detail record with an empty head SHA the processor is not
\* called for that item and no error is returned for it: the run goes on
\* with the next item, the next page or a nil return
\* ------------------------------------------------------------------------
C3_EmptySHASkipped ==
    \A k \in DOMAIN events :
        HasEmptySHA(events[k]) =>
            /\ k < Len(events) => ~IsSink(events[k + 1])
            /\ k = Len(events) => (pc \in {"detail", "list", "done"} /\ ~ret.isErr)

C3_Witness ==
    /\ ReturnedNil
    /\ Len(events) > 2
    /\ HasEmptySHA(events[2])
    /\ IsDetail(events[3])

\* ------------------------------------------------------------------------
\* Texts
\* ------------------------------------------------------------------------
EndsWith(s, t) ==
    Len(t) <= Len(s) /\ SubSeq(s, Len(s) - Len(t) + 1, Len(s)) = t

\* what an error text that wraps cause puts in front of it
Context(s, cause) == SubSeq(s, 1, Len(s) - Len(cause))

\* number of detail requests among the first j events: the position in the
\* listing of the item event j is about
DetailsBefore(j) ==
    Cardinality({k \in 1..j : IsDetail(events[k])})

LastEvent == events[Len(events)]

\* ------------------------------------------------------------------------
\* C4 as stated: the record handed to the processor has ID, IID and HeadSHA
\* equal to the id, iid and head SHA of the detail record just fetched
\* ------------------------------------------------------------------------
C4_RefEqualsDetailRecord ==
    \A j \in DOMAIN events :
        IsSink(events[j]) =>
            /\ j > 1
            /\ HasSHA(events[j - 1])
            /\ events[j].ref.ID = events[j - 1].det.id
            /\ events[j].ref.IID = events[j - 1].det.iid
            /\ events[j].ref.HeadSHA = events[j - 1].det.headSha

\* C4 amended: the record handed to the processor has the ID and IID of
\* the listing summary the detail request was made for, and the head SHA
\* of the detail record just fetched
C4_RefFromSummaryAndDetail ==
    \A j \in DOMAIN events :
        IsSink(events[j]) =>
            /\ j > 1
            /\ HasSHA(events[j - 1])
            /\ DetailsBefore(j) \in DOMAIN ListedItems
            /\ events[j].ref.ID = ListedItems[DetailsBefore(j)].id
            /\ events[j].ref.IID = ListedItems[DetailsBefore(j)].iid
            /\ events[j].ref.HeadSHA = events[j - 1].det.headSha

C4_Witness ==
    /\ Len(events) > 2
    /\ IsSink(events[3])
    /\ events[2].det.id # ListedItems[1].id
    /\ events[2].det.iid # ListedItems[1].iid
    /\ events[3].ref.HeadSHA = "bb"

\* ------------------------------------------------------------------------
\* C5: at every point of every run the records offered to the processor so
\* far are in the order in which the platform listed their summaries: the
\* detail requests follow the listing item by item, and each processor
\* call is for a later listed item than the call before it
\* ------------------------------------------------------------------------
C5_SinkInListingOrder ==
    /\ Len(DetailEvents) <= Len(ListedItems)
    /\ \A k \in DOMAIN DetailEvents : DetailEvents[k].mr = ListedItems[k]
    /\ \A j \in DOMAIN events :
          IsSink(events[j]) =>
              /\ DetailsBefore(j) \in DOMAIN ListedItems
              /\ events[j].ref.IID = ListedItems[DetailsBefore(j)].iid
    /\ \A i, j \in DOMAIN events :
          (IsSink(events[i]) /\ IsSink(events[j]) /\ i < j)
              => DetailsBefore(i) < DetailsBefore(j)

C5_Witness ==
    /\ ReturnedError
    /\ Len(SinkEvents) = 2
    /\ Len(ListEvents) = 1
    /\ SinkEvents[1].ref.IID = 404
    /\ SinkEvents[2].ref.IID = 1

\* ------------------------------------------------------------------------
\* C6: in every reachable state, as long as no merge request was listed
\* twice, the processor has been called at most once for each iid
\* ------------------------------------------------------------------------
C6_AtMostOneEmissionPerIID ==
    NoOverlap =>
        \A i, j \in DOMAIN SinkEvents :
            i # j => SinkEvents[i].ref.IID # SinkEvents[j].ref.IID

C6_Witness ==
    /\ NoOverlap
    /\ Len(ListEvents) = 2
    /\ Len(SinkEvents) = 2
    /\ pc = "done"

\* ------------------------------------------------------------------------
\* C7: when the processor returns an error for an item, the run returns an
\* error that wraps the processor's error and names the item's iid, and
\* the failing call is the last request or processor call of the run
\* ------------------------------------------------------------------------
C7_SinkErrorAborts ==
    \A k \in DOMAIN events :
        (IsSink(events[k]) /\ ~events[k].ok) =>
            /\ k = Len(events)
            /\ ReturnedError
            /\ EndsWith(ret.msg, events[k].cause)
            /\ Contains(Context(ret.msg, events[k].cause),
                        Itoa(events[k].ref.IID))

C7_Witness ==
    /\ ReturnedError
    /\ Len(SinkEvents) = 2
    /\ SinkEvents[1].ok
    /\ ~SinkEvents[2].ok
    /\ nextPage # 0

C9_DetailErrorPartialProgress ==
    (events # <<>> /\ IsDetail(LastEvent) /\ ~LastEvent.ok) =>
        LET k == Len(DetailEvents)
        IN  /\ k \in DOMAIN ListedItems
            /\ ReturnedError
            /\ Contains(Context(ret.msg, LastEvent.cause),
                        Itoa(ListedItems[k].iid))
            /\ Offered = Eligible(k - 1)
            /\ \A j \in DOMAIN SinkEvents : SinkEvents[j].ok

C9_Witness ==
    /\ events # <<>>
    /\ IsDetail(LastEvent)
    /\ ~LastEvent.ok
    /\ Len(DetailEvents) = 2
    /\ Len(SinkEvents) = 1
    /\ Len(ListEvents) = 2

\* ------------------------------------------------------------------------
\* C10 as stated: when a listing request fails, the context the returned
\* error puts in front of the cause identifies the page that failed, by
\* its number in the run or by the cursor requested
\* ------------------------------------------------------------------------
C10_ListErrorNamesPage ==
    (events # <<>> /\ IsList(LastEvent) /\ ~LastEvent.ok) =>
        /\ ReturnedError
        /\ \/ Contains(Context(ret.msg, LastEvent.cause), Itoa(pageCount))
           \/ /\ LastEvent.page # 0
              /\ Contains(Context(ret.msg, LastEvent.cause),
                          Itoa(LastEvent.page))

\* ------------------------------------------------------------------------
\* Views of the rate limiting calls of the latest step
\* ------------------------------------------------------------------------
IsTooManyRequests(resp) == ~resp.isNil /\ resp.status = 429

\* ------------------------------------------------------------------------
\* C11 as stated: a request answered with 429 is followed by a call of
\* checkRateLimitHeaders with that response in which the hard-stop wait is
\* slept, and the run does not return an error because of it
\* ------------------------------------------------------------------------
C11_TooManyRequestsIsNotAnError ==
    \A i \in DOMAIN calls :
        (calls[i].op = "request" /\ IsTooManyRequests(calls[i].resp)) =>
            /\ \E j \in DOMAIN calls :
                  /\ j > i
                  /\ calls[j].op = "check"
                  /\ calls[j].resp = calls[i].resp
                  /\ calls[j].slept > 0
            /\ ~ReturnedError

\* ------------------------------------------------------------------------
\* C12 as stated: every request, answered or failed, has a call of
\* rateLimitWait right before it and a call of checkRateLimitHeaders with
\* its response right after it, before the next request or the return
\* ------------------------------------------------------------------------
C12_EveryRequestWaitedAndChecked ==
    \A i \in DOMAIN calls :
        calls[i].op = "request" =>
            /\ i > 1
            /\ calls[i - 1].op = "wait"
            /\ i < Len(calls)
            /\ calls[i + 1].op = "check"
            /\ calls[i + 1].resp = calls[i].resp

\* ------------------------------------------------------------------------
\* Views of a single rate limiting call
\* ------------------------------------------------------------------------
\* the latest step was one call of rateLimitWait / checkRateLimitHeaders
WaitCalled == Len(calls) = 1 /\ calls[1].op = "wait"
CheckCalled == Len(calls) = 1 /\ calls[1].op = "check"

\* the step is one call of rateLimitWait / checkRateLimitHeaders
WaitStep == Len(calls') = 1 /\ calls'[1].op = "wait"
CheckStep == Len(calls') = 1 /\ calls'[1].op = "check"

\* the remaining quota a response reports: the primary header, or the
\* alternate one when the primary is absent
QuotaText(resp) ==
    IF resp.remaining # <<>> THEN resp.remaining ELSE resp.xremaining
HasQuota(resp) == ~resp.isNil /\ Atoi(QuotaText(resp)).ok
Quota(resp) == Atoi(QuotaText(resp)).val
NoQuotaHeader(resp) ==
    ~resp.isNil /\ resp.remaining = <<>> /\ resp.xremaining = <<>>

HasRetryAfter(resp) == Atoi(resp.retryAfter).ok
RetryAfterSeconds(resp) == Atoi(resp.retryAfter).val

\* ------------------------------------------------------------------------
\* C13: minInterval never decreases, whatever sequence of calls is made
\* with whatever remaining quota and status
\* ------------------------------------------------------------------------
C13_MinIntervalNeverDecreases ==
    [][minInterval' >= minInterval]_vars

C13_Witness ==
    /\ CheckCalled
    /\ govSteps > 1
    /\ HasQuota(calls[1].resp)
    /\ Quota(calls[1].resp) > 10
    /\ minInterval = ModerateInterval

\* ------------------------------------------------------------------------
\* C14 as stated: after a response that reports a remaining quota of 5 or
\* less, minInterval is the critical interval of 5 s
\* ------------------------------------------------------------------------
C14_CriticalQuotaGivesCriticalInterval ==
    (CheckCalled /\ HasQuota(calls[1].resp) /\ Quota(calls[1].resp) <= 5)
        => minInterval = 5000

\* ------------------------------------------------------------------------
\* C15: from the baseline interval of 100 ms, a response that reports a
\* remaining quota above 5 and at most 10 sets minInterval to 1 s, and one
\* that reports more than 10 leaves minInterval unchanged
\* ------------------------------------------------------------------------
C15_LowQuotaGivesModerateInterval ==
    [][(CheckStep /\ minInterval = 100 /\ HasQuota(calls'[1].resp)) =>
          /\ (Quota(calls'[1].resp) > 5 /\ Quota(calls'[1].resp) <= 10)
                => minInterval' = 1000
          /\ Quota(calls'[1].resp) > 10 => minInterval' = 100]_vars

C15_Witness ==
    /\ CheckCalled
    /\ govSteps = 1
    /\ HasQuota(calls[1].resp)
    /\ Quota(calls[1].resp) = 10
    /\ minInterval = ModerateInterval

\* ------------------------------------------------------------------------
\* C16: the lastRequestTime recorded by a call of rateLimitWait is at least
\* the minInterval in effect at that call later than the lastRequestTime
\* recorded by the call of rateLimitWait before it
\* ------------------------------------------------------------------------
C16_WaitsSpacedByMinInterval ==
    [][(WaitStep /\ lastRequestTime # ZeroTime) =>
          lastRequestTime' - lastRequestTime >= minInterval]_vars

C16_Witness ==
    /\ WaitCalled
    /\ calls[1].slept > 0
    /\ minInterval = ModerateInterval

\* ------------------------------------------------------------------------
\* C17: rateLimitWait sleeps max(0, minInterval - elapsed), nothing on the
\* first call, and sets lastRequestTime to the time after the sleep
\* ------------------------------------------------------------------------
C17_WaitSleepsTheRemainder ==
    [][WaitStep =>
          LET elapsed == now - lastRequestTime
              expected == IF lastRequestTime = ZeroTime THEN 0
                          ELSE IF minInterval - elapsed > 0
                          THEN minInterval - elapsed
                          ELSE 0
          IN  /\ calls'[1].slept = expected
              /\ now' = now + expected
              /\ lastRequestTime' = now']_vars

C17_Witness ==
    /\ WaitCalled
    /\ calls[1].slept = 50
    /\ minInterval = BaseInterval
    /\ lastRequestTime = now

\* ------------------------------------------------------------------------
\* C18: on status 429 with a Retry-After header holding the integer n,
\* checkRateLimitHeaders sleeps n seconds in all, whatever minInterval is,
\* and not the default wait as well
\* ------------------------------------------------------------------------
C18_RetryAfterIsSlept ==
    [][(CheckStep /\ IsTooManyRequests(calls'[1].resp)
          /\ HasRetryAfter(calls'[1].resp)) =>
          /\ calls'[1].slept = RetryAfterSeconds(calls'[1].resp) * 1000
          /\ now' = now + RetryAfterSeconds(calls'[1].resp) * 1000]_vars

C18_Witness ==
    /\ CheckCalled
    /\ IsTooManyRequests(calls[1].resp)
    /\ calls[1].resp.retryAfter = <<"3">>
    /\ calls[1].slept = 3000
    /\ NoQuotaHeader(calls[1].resp)
    /\ minInterval = ModerateInterval

\* ------------------------------------------------------------------------
\* C19: on status 429 with no Retry-After header, or one that is not an
\* integer, checkRateLimitHeaders sleeps the default wait of 60 s in all
\* ------------------------------------------------------------------------
C19_DefaultWaitIsSlept ==
    [][(CheckStep /\ IsTooManyRequests(calls'[1].resp)
          /\ ~HasRetryAfter(calls'[1].resp)) =>
          /\ calls'[1].slept = 60000
          /\ now' = now + 60000]_vars

C19_Witness ==
    /\ CheckCalled
    /\ IsTooManyRequests(calls[1].resp)
    /\ calls[1].resp.retryAfter = <<"x">>
    /\ calls[1].slept = 60000

\* ------------------------------------------------------------------------
\* C20: a response with status 429 and no remaining-quota header leaves
\* minInterval as it was, and would do so from each of the three intervals
\* ------------------------------------------------------------------------
C20_HardStopKeepsInterval ==
    [][(CheckStep /\ IsTooManyRequests(calls'[1].resp)
          /\ NoQuotaHeader(calls'[1].resp)) =>
          /\ minInterval' = minInterval
          /\ \A interval \in {BaseInterval, ModerateInterval,
                                CriticalInterval} :
                CheckedInterval(calls'[1].resp, interval) = interval]_vars

C20_Witness ==
    /\ CheckCalled
    /\ IsTooManyRequests(calls[1].resp)
    /\ NoQuotaHeader(calls[1].resp)
    /\ calls[1].resp.retryAfter = <<>>
    /\ minInterval = ModerateInterval

\* ------------------------------------------------------------------------
\* C21: on a response with both a remaining quota of at most 10 and status
\* 429, checkRateLimitHeaders escalates minInterval and makes the hard-stop
\* wait; the interval is what the same headers give under status 200 and
\* the wait is what the same status gives without quota headers
\* ------------------------------------------------------------------------
C21_BothSignalsConsulted ==
    [][(CheckStep /\ ~calls'[1].resp.isNil) =>
          LET resp == calls'[1].resp
              quotaOnly == Response(200, resp.remaining, resp.xremaining,
                                    <<>>)
              statusOnly == Response(resp.status, <<>>, <<>>,
                                     resp.retryAfter)
          IN  /\ minInterval' = CheckedInterval(quotaOnly, minInterval)
              /\ calls'[1].slept = CheckedSleep(statusOnly)
              /\ (IsTooManyRequests(resp) /\ HasQuota(resp)
                    /\ Quota(resp) <= 10) =>
                    /\ minInterval' >= 1000
                    /\ calls'[1].slept > 0
                    /\ now' = now + calls'[1].slept]_vars

C21_Witness ==
    /\ CheckCalled
    /\ govSteps = 1
    /\ IsTooManyRequests(calls[1].resp)
    /\ HasQuota(calls[1].resp)
    /\ Quota(calls[1].resp) <= 10
    /\ minInterval = ModerateInterval
    /\ calls[1].slept = 3000

\* ------------------------------------------------------------------------
\* C22: the remaining quota is read from the primary header, and from the
\* alternate header if and only if the primary one is empty; a primary
\* header that is present decides alone, whatever the alternate one holds
\* ------------------------------------------------------------------------
C22_AlternateOnlyWhenPrimaryAbsent ==
    [][(CheckStep /\ ~calls'[1].resp.isNil) =>
          LET resp == calls'[1].resp
              used == IF resp.remaining # <<>> THEN resp.remaining
                      ELSE resp.xremaining
              low == Atoi(used).ok /\ Atoi(used).val <= 10
          IN  /\ low => minInterval' = 1000
              /\ ~low => minInterval' = minInterval]_vars

C22_Witness ==
    /\ CheckCalled
    /\ calls[1].resp.remaining = <<"1", "1">>
    /\ calls[1].resp.xremaining = <<"5">>
    /\ minInterval = BaseInterval

\* ------------------------------------------------------------------------
\* C23: the first listing request carries no cursor, each later one carries
\* the cursor of the listing response before it, which is not 0; a nil
\* return follows a listing response with cursor 0 all of whose items had
\* their detail request; the run ends, and it ends with nil when every
\* request and processor call succeeded
\* ------------------------------------------------------------------------
CursorChain ==
    \A k \in DOMAIN ListEvents :
        IF k = 1 THEN ListEvents[k].page = 0
        ELSE /\ ListEvents[k - 1].ok
             /\ ListEvents[k - 1].next # 0
             /\ ListEvents[k].page = ListEvents[k - 1].next

AllSucceeded == \A k \in DOMAIN events : events[k].ok

LastPageWalked ==
    ReturnedNil =>
        /\ ListEvents # <<>>
        /\ ListEvents[Len(ListEvents)].next = 0
        /\ Len(DetailEvents) = Len(ListedItems)

C23_CursorChainEndsInNil ==
    /\ [](CursorChain /\ LastPageWalked)
    /\ []((pc = "done" /\ AllSucceeded) => ReturnedNil)
    /\ <>(pc = "done")

C23_Witness ==
    /\ ReturnedNil
    /\ Len(ListEvents) = 2
    /\ ListEvents[1].next = 2
    /\ ListEvents[2].page = 2
    /\ ListEvents[2].items # <<>>

\* ------------------------------------------------------------------------
\* C24: the processor call for an item with a non-empty head SHA is the
\* very next thing after its detail request, before any other request; a
\* record is pending only while the processor is being called
\* ------------------------------------------------------------------------
Pending ==
    Cardinality({k \in DOMAIN events : HasSHA(events[k])})
        - Len(SinkEvents)

C24_HandedOffImmediately ==
    /\ \A k \in DOMAIN events :
          HasSHA(events[k]) =>
              IF k < Len(events)
              THEN /\ IsSink(events[k + 1])
                   /\ events[k + 1].mr = events[k].mr
                   /\ events[k + 1].ref.HeadSHA = events[k].det.headSha
              ELSE pc = "sink"
    /\ \A k \in DOMAIN events :
          IsSink(events[k]) => k > 1 /\ HasSHA(events[k - 1])
    /\ Pending = (IF pc = "sink" THEN 1 ELSE 0)

C24_Witness ==
    \E k \in DOMAIN events :
        /\ k + 2 <= Len(events)
        /\ HasSHA(events[k])
        /\ IsSink(events[k + 1]) /\ events[k + 1].ok
        /\ events[k + 2].kind \in {"detail", "list"}

\* ------------------------------------------------------------------------
\* C26 as stated: when the processor fails for an item, the error that
\* FetchMergeRequestRefsFromRepo returns holds the processor's error text
\* and the number of that item
\* ------------------------------------------------------------------------
C26_SinkErrorSurfacesFromRepo ==
    (repoRet.returned /\ events # <<>> /\ IsSink(LastEvent)
        /\ ~LastEvent.ok) =>
        /\ repoRet.err.isErr
        /\ Contains(repoRet.err.msg, LastEvent.cause)
        /\ Contains(repoRet.err.msg, Itoa(LastEvent.mr.iid))

\* ------------------------------------------------------------------------
\* C25 as stated: with the StreamWriter as the sink, the file holds exactly
\* the records whose WriteRef returned nil, in order, and nothing is left
\* in the buffer of the writer, also after the run was aborted
\* ------------------------------------------------------------------------
C25_FileHoldsExactlyWritten ==
    csvPc \in {"stream", "streamed"} =>
        /\ file = EncodeRefs(written)
        /\ buffer = <<>>

\* ------------------------------------------------------------------------
\* C27 as stated: a list written with WriteRefsToFile, or record by record
\* with WriteRef, is read back by ReadRefsFromFile without error, as many
\* records with the same IID and HeadSHA in the same order
\* ------------------------------------------------------------------------
WroteAll == csvPc \in {"batch", "streamed"} /\ ~writeErr

ReadBackEqualsWritten ==
    /\ ~readBack.isErr
    /\ Len(readBack.refs) = Len(written)
    /\ \A i \in DOMAIN written :
          /\ readBack.refs[i].IID = written[i].IID
          /\ readBack.refs[i].HeadSHA = written[i].HeadSHA

C27_RoundTrip == (readBack.done /\ WroteAll) => ReadBackEqualsWritten

HasCRLF(h) == Contains(h, <<CR, LF>>)

\* C27 amended: the round trip holds for every list in which no HeadSHA
\* holds a carriage return directly followed by a newline
C27_RoundTripWithoutCRLF ==
    (readBack.done /\ WroteAll
        /\ \A i \in DOMAIN written : ~HasCRLF(written[i].HeadSHA))
        => ReadBackEqualsWritten

C27_Witness ==
    /\ readBack.done /\ WroteAll
    /\ Len(written) = 2
    /\ written[1].HeadSHA = <<"a", COMMA, "b">>
    /\ written[2].HeadSHA = <<"a", QUOTE>>
    /\ ReadBackEqualsWritten

\* ------------------------------------------------------------------------
\* C28 as stated: the written file is the lines "<IID>,<HeadSHA>" of the
\* records in order, each followed by a newline, with no header and no
\* quoting
\* ------------------------------------------------------------------------
PlainLine(r) == Itoa(r.IID) \o <<COMMA>> \o r.HeadSHA \o <<LF>>

PlainFile(refs) == Concat([i \in DOMAIN refs |-> PlainLine(refs[i])])

WrittenFile == csvPc \in {"batch", "stream", "streamed"} /\ ~writeErr

PlainSHA(h) ==
    /\ \A i \in DOMAIN h : h[i] \notin {COMMA, QUOTE, CR, LF}
    /\ h = <<>> \/ h[1] # SPACE
    /\ h # <<"\\", ".">>

FieldCount(l) == 1 + Cardinality({i \in DOMAIN l : l[i] = COMMA})

FirstField(l) ==
    IF IndexOf(l, COMMA) = 0 THEN l ELSE SubSeq(l, 1, IndexOf(l, COMMA) - 1)

IsBadLine(l) ==
    /\ l # <<>>
    /\ FieldCount(l) # 2 \/ ~Atoi(FirstField(l)).ok

IsFullURL(path) == HasPrefix(path, <<"http">>) /\ ParseRepoPath(path).ok

URLAndOverride ==
    /\ cmdPc # "start"
    /\ IsFullURL(repoPath)
    /\ gitlabBaseURL # <<>>
    /\ ParseRepoPath(repoPath).baseURL # gitlabBaseURL

C30_OverrideWins ==
    URLAndOverride =>
        /\ \A k \in DOMAIN requests :
              /\ requests[k].baseURL = ApiBase(gitlabBaseURL)
              /\ requests[k].baseURL # ApiBase(ParseRepoPath(repoPath).baseURL)
        /\ cmdPc = "done" =>
              /\ requests # <<>>
              /\ cmdRet.isErr <=> fetchRet.isErr

C30_Witness ==
    /\ URLAndOverride
    /\ cmdPc = "done"
    /\ ParseRepoPath(repoPath).baseURL = ExampleCom
    /\ gitlabBaseURL = GitCorp
    /\ Len(requests) = 2
    /\ ~cmdRet.isErr

\* ------------------------------------------------------------------------
\* C31: a text that does not start with "http" is accepted by
\* ParseRepoPath exactly when it is two or more non-empty segments of
\* characters from [a-zA-Z0-9._-] with one "/" between them; then the
\* base URL is empty and the project path is the text
\* ------------------------------------------------------------------------
\* the maximal runs of tokens between the "/" of a text
RECURSIVE Segments(_)
Segments(t) ==
    IF IndexOf(t, "/") = 0 THEN <<t>>
    ELSE <<SubSeq(t, 1, IndexOf(t, "/") - 1)>>
         \o Segments(SubSeq(t, IndexOf(t, "/") + 1, Len(t)))

IsPathShape(t) ==
    /\ Len(Segments(t)) >= 2
    /\ \A k \in DOMAIN Segments(t) :
          /\ Segments(t)[k] # <<>>
          /\ \A i \in DOMAIN Segments(t)[k] :
                Segments(t)[k][i] \notin {":", " "}

StartsWithHttp(t) == t # <<>> /\ t[1] = "http"

C31_PlainPathAccepted ==
    (parseRet.done /\ ~StartsWithHttp(repoPath)) =>
        /\ parseRet.ok <=> IsPathShape(repoPath)
        /\ parseRet.ok => parseRet.baseURL = <<>> /\ parseRet.projectPath = repoPath

C31_Witness ==
    /\ parseRet.done /\ parseRet.ok
    /\ repoPath = <<"g", "/", ".git">>
    /\ parseRet.projectPath = repoPath

\* ------------------------------------------------------------------------
\* C32: for a text that starts with "http" and parses as a URL,
\* ParseRepoPath returns the base URL "<scheme>://<host>", the host with
\* its port, and as project path the path of the URL without its leading
\* "/" and without a trailing ".git"; a text that starts with "http" and
\* does not parse as a URL gives an error
\* ------------------------------------------------------------------------
WithoutLeadingSlash(path) ==
    IF path # <<>> /\ path[1] = "/" THEN Tail(path) ELSE path

WithoutTrailingGit(path) ==
    IF path # <<>> /\ path[Len(path)] = ".git"
    THEN SubSeq(path, 1, Len(path) - 1) ELSE path

C32_UrlParts ==
    (parseRet.done /\ StartsWithHttp(repoPath)) =>
        IF UrlParse(repoPath).ok
        THEN /\ parseRet.ok
             /\ parseRet.baseURL = UrlParse(repoPath).scheme
                     \o <<":", "/", "/">> \o UrlParse(repoPath).host
             /\ parseRet.projectPath =
                     WithoutTrailingGit(
                         WithoutLeadingSlash(UrlParse(repoPath).path))
        ELSE ~parseRet.ok

C32_Witness ==
    /\ parseRet.done /\ parseRet.ok
    /\ repoPath = <<"http", "s", ":", "/", "/", "h.com", ":", "8080",
                    "/", "g", ".git">>
    /\ parseRet.baseURL = <<"http", "s", ":", "/", "/", "h.com", ":", "8080">>
    /\ parseRet.projectPath = <<"g">>

\* ------------------------------------------------------------------------
\* C33 as stated: for a repository given as a path group/.../project or
\* as a URL scheme://host/group/.../project, with or without ".git" at
\* the end, GenerateFilename returns the project path with "-" for every
\* "/", followed by ".csv"; that is the project path ParseRepoPath
\* returns for the same text, and the file name holds no "/"
\* ------------------------------------------------------------------------
UrlPrefix == UrlScheme \o <<":", "/", "/">>
\* what follows "https://" in t, its host, and what follows the "/" after
\* the host
AfterPrefix(t) == SubSeq(t, Len(UrlPrefix) + 1, Len(t))
HostPart(t) == Before(AfterPrefix(t), "/")
PathPart(t) == SubSeq(AfterPrefix(t), Len(HostPart(t)) + 2, Len(AfterPrefix(t)))

IsRepoURL(t) ==
    /\ HasPrefix(t, UrlPrefix)
    /\ HostPart(t) \in {<<"h.com">>, <<"h.com", ":", "8080">>}
    /\ IsPathShape(PathPart(t))

\* the path group/.../project of a repository text
RepoProject(t) ==
    IF IsRepoURL(t) THEN WithoutTrailingGit(PathPart(t))
    ELSE WithoutTrailingGit(t)

C33_FilenameIsProjectPath ==
    (filename # NoFilename /\ (IsPathShape(repoPath) \/ IsRepoURL(repoPath)))
        => /\ filename = ReplaceSlashes(RepoProject(repoPath)) \o <<".csv">>
           /\ parseRet.ok =>
                 filename = ReplaceSlashes(parseRet.projectPath) \o <<".csv">>
           /\ \A i \in DOMAIN filename : filename[i] # "/"

\* C33 amended: the same for a repository given as a path
\* group/.../project that does not end in ".git", or as a URL
\* scheme://host/group/.../project with or without ".git" at the end
EndsInGit(t) == t # <<>> /\ t[Len(t)] = ".git"

C33_FilenameIsProjectPathUnlessPlainGit ==
    (filename # NoFilename
        /\ \/ IsPathShape(repoPath) /\ ~EndsInGit(repoPath)
           \/ IsRepoURL(repoPath))
        => /\ filename = ReplaceSlashes(RepoProject(repoPath)) \o <<".csv">>
           /\ parseRet.ok =>
                 filename = ReplaceSlashes(parseRet.projectPath) \o <<".csv">>
           /\ \A i \in DOMAIN filename : filename[i] # "/"

C33_Witness ==
    /\ repoPath = UrlPrefix \o <<"h.com", "/", "g", "/", "g", ".git">>
    /\ parseRet.ok
    /\ parseRet.projectPath = <<"g", "/", "g">>
    /\ filename = <<"g", "-", "g", ".csv">>

\* ------------------------------------------------------------------------
\* C34 as stated: when the repository is a URL of another instance than
\* the default one and no base URL is given by flag, the requests go to
\* the base URL of the repository URL
\* ------------------------------------------------------------------------
NamesInstance(path) ==
    /\ IsFullURL(path)
    /\ UrlParse(path).scheme # <<>>
    /\ UrlParse(path).host # <<>>

C34_RequestsFollowRepoURL ==
    (cmdPc # "start" /\ NamesInstance(repoPath) /\ gitlabBaseURL = <<>>
        /\ ParseRepoPath(repoPath).baseURL # DefaultBaseURL)
        => \A k \in DOMAIN requests :
              requests[k].baseURL = ApiBase(ParseRepoPath(repoPath).baseURL)

\* ------------------------------------------------------------------------
\* C35 as stated: a project path that ParseRepoPath returns without error
\* is not empty and is two or more segments of characters from
\* [a-zA-Z0-9._-], for a URL as for a plain path
\* ------------------------------------------------------------------------
C35_ProjectPathValidated ==
    (parseRet.done /\ parseRet.ok) =>
        /\ parseRet.projectPath # <<>>
        /\ IsPathShape(parseRet.projectPath)

\* ------------------------------------------------------------------------
\* C36 as stated: FetchMergeRequestRefsFromRepo says "repository not
\* found" only when a request was answered with 404 and "authentication
\* failed" only when one was answered with 401 or 403; every other
\* failure comes back as the generic error that holds the original cause
\* ------------------------------------------------------------------------
\* a request of the run failed with an answer of the given status
AnsweredWith(status) ==
    \E k \in DOMAIN events :
        /\ events[k].kind \in {"list", "detail"}
        /\ ~events[k].ok
        /\ Contains(events[k].cause, status)

NotFoundReported == HasPrefix(repoRet.err.msg, <<"repository not found: ">>)
AuthFailureReported ==
    Contains(repoRet.err.msg, <<"authentication failed: please check your GitLab token has access to repository ">>)

C36_KindFollowsAnswer ==
    (repoRet.returned /\ repoRet.err.isErr) =>
        /\ NotFoundReported => AnsweredWith(<<"4", "0", "4">>)
        /\ AuthFailureReported =>
              AnsweredWith(<<"4", "0", "1">>) \/ AnsweredWith(<<"4", "0", "3">>)
        /\ ~(AnsweredWith(<<"4", "0", "4">>) \/ AnsweredWith(<<"4", "0", "1">>)
                \/ AnsweredWith(<<"4", "0", "3">>)) =>
              /\ HasPrefix(repoRet.err.msg,
                           <<"failed to fetch merge request references from ">>)
              /\ Contains(repoRet.err.msg, ret.msg)

\* ------------------------------------------------------------------------
\* C37 as stated: when the command fails because ParseRepoPath rejects the
\* repository, before any record was written, the output file is as it
\* was before: not made when there was none, with its old content when
\* there was one
\* ------------------------------------------------------------------------
C37_OutputFileUntouched ==
    (cmdPc = "done" /\ ~ParseRepoPath(repoPath).ok) =>
        /\ (csvPc # "none") = oldFile.exists
        /\ file = oldFile.bytes

\* ------------------------------------------------------------------------
\* C38: lastRequestTime changes only in rateLimitWait, never in
\* checkRateLimitHeaders, and never goes back; the time of a wait on
\* status 429 counts as elapsed: the rateLimitWait that follows it sleeps
\* nothing when that wait was at least minInterval long
\* ------------------------------------------------------------------------
C38_LastRequestTimeFrame ==
    [][/\ lastRequestTime' # lastRequestTime => WaitStep
       /\ CheckStep => lastRequestTime' = lastRequestTime
       /\ lastRequestTime' >= lastRequestTime
       /\ WaitStep => lastRequestTime' = now'
       /\ (WaitStep /\ CheckCalled /\ IsTooManyRequests(calls[1].resp)
             /\ calls[1].slept >= minInterval) =>
             /\ calls'[1].slept = 0
             /\ now' = now]_vars

C38_Witness ==
    /\ WaitCalled
    /\ calls[1].slept = 0
    /\ govSteps = 3
    /\ minInterval = ModerateInterval
    /\ now = 3051
    /\ lastRequestTime = now

\* ------------------------------------------------------------------------
\* C39: checkRateLimitHeaders changes nothing and sleeps nothing when the
\* response is nil, and when the status is not 429 and no remaining quota
\* can be read (header absent under both names, or not an integer);
\* minInterval starts at the 100 ms baseline and leaves its value only in
\* a call whose response reports a remaining quota of 10 or less
\* ------------------------------------------------------------------------
NothingToRead(resp) ==
    \/ resp.isNil
    \/ /\ resp.status # StatusTooManyRequests
       /\ \/ NoQuotaHeader(resp)
          \/ ~Atoi(QuotaText(resp)).ok

C39_NoOpWithoutQuota ==
    /\ minInterval = BaseInterval
    /\ [][/\ (CheckStep /\ NothingToRead(calls'[1].resp)) =>
              /\ minInterval' = minInterval
              /\ calls'[1].slept = 0
              /\ now' = now
              /\ lastRequestTime' = lastRequestTime
          /\ minInterval' # minInterval =>
              /\ CheckStep
              /\ HasQuota(calls'[1].resp)
              /\ Quota(calls'[1].resp) <= LowThreshold]_vars

C39_Witness ==
    /\ CheckCalled
    /\ calls[1].resp = Response(200, <<"x">>, <<>>, <<>>)
    /\ calls[1].slept = 0
    /\ minInterval = BaseInterval
    /\ lastRequestTime # ZeroTime
    /\ govSteps = 3

====
